---- MODULE Spec2Model ----
(***************************************************************************)
(* Model of the memory cache of highperapp/cache (src/rust/src/lib.rs):    *)
(* the process-wide  Mutex<Option<HashMap<String, CacheEntry>>>, the wall  *)
(* clock the entries are stamped with, and the extern "C" handlers that    *)
(* read and write the map.                                                 *)
(*                                                                         *)
(* u64 arithmetic is kept modular, with the word scaled down from 64 bits  *)
(* to WordBits bits so that the sums the code computes can be enumerated.  *)
(***************************************************************************)
EXTENDS Integers, Sequences, FiniteSets, TLC

\* ----------------------------------------------------------------- bounds
\* Width of the scaled-down u64 word.
WordBits == 3
\* The wall clock (seconds since the epoch) ranges over 0 .. MaxNow.
MaxNow == 2
\* Longest batch handed to set_multiple / get_multiple.
MaxBatch == 2
\* Longest byte sequence handed to base64_encode.
MaxData == 4
\* Longest text handed to base64_decode.
MaxText == 8
\* Number of blocks of the heap the boundary buffers live in.
MaxBufs == 4

U64_MOD == 2 ^ WordBits
U64_MAX == U64_MOD - 1

Time == 0 .. MaxNow

\* ------------------------------------------------------- boundary strings
\* A `*const c_char` handed in by the caller: the null pointer, a pointer to
\* NUL-terminated valid UTF-8 text, or a pointer to bytes that are not UTF-8.
NullPtr == [null |-> TRUE, utf8 |-> TRUE, text |-> ""]
CStr(s) == [null |-> FALSE, utf8 |-> TRUE, text |-> s]
BadCStr == [null |-> FALSE, utf8 |-> FALSE, text |-> "?"]

KeyPtrs == {NullPtr, CStr("a"), BadCStr}
ValuePtrs == {NullPtr, CStr("x"), BadCStr}
TTLs == {0, 1, U64_MAX}

\* A lossy conversion: text that is not UTF-8 is accepted as it is.
c_str_to_string_lossy(p) ==
    IF p.null THEN [ok |-> TRUE, s |-> ""] ELSE [ok |-> TRUE, s |-> p.text]

\* c_str_to_string: null becomes Ok(""), invalid UTF-8 becomes Err.
c_str_to_string(p) ==
    IF p.null THEN [ok |-> TRUE, s |-> ""]
    ELSE IF p.utf8 THEN [ok |-> TRUE, s |-> p.text]
    ELSE [ok |-> FALSE, s |-> ""]

\* string_to_c_str: a fresh NUL-terminated copy of s.  No stored string holds
\* an interior NUL (every one came out of a CStr), so CString::new succeeds.
string_to_c_str(s) == CStr(s)

Keys == {c_str_to_string(p).s : p \in {q \in KeyPtrs : c_str_to_string(q).ok}}
Values == {c_str_to_string(p).s : p \in {q \in ValuePtrs : c_str_to_string(q).ok}}

\* ------------------------------------------------------------- CacheEntry
None == [some |-> FALSE, v |-> 0]
Some(x) == [some |-> TRUE, v |-> x]

\* `now + ttl` on u64 in a build without overflow checks.
wrapping_add(a, b) == (a + b) % U64_MOD

\* The struct CacheEntry::new builds at clock reading t.
CacheEntry_new(value, ttl, t) ==
    [value |-> value,
     expires_at |-> IF ttl > 0 THEN Some(wrapping_add(t, ttl)) ELSE None,
     created_at |-> t]

\* is_expired with the comparison off by one second.
is_expired_late(entry, t) ==
    IF entry.expires_at.some THEN t > entry.expires_at.v + 1 ELSE FALSE

\* CacheEntry::is_expired at clock reading t.
is_expired(entry, t) ==
    IF entry.expires_at.some THEN t > entry.expires_at.v ELSE FALSE

\* ------------------------------------------------------------------ codec
\* Text is a sequence of characters, a character its code point; bytes are
\* 0 .. 255.
\* b"ABCDEFGHIJKLMNOPQRSTUVWXYZabcdefghijklmnopqrstuvwxyz0123456789+/"
CHARS ==
    <<65, 66, 67, 68, 69, 70, 71, 72, 73, 74, 75, 76, 77,
      78, 79, 80, 81, 82, 83, 84, 85, 86, 87, 88, 89, 90,
      97, 98, 99, 100, 101, 102, 103, 104, 105, 106, 107, 108, 109,
      110, 111, 112, 113, 114, 115, 116, 117, 118, 119, 120, 121, 122,
      48, 49, 50, 51, 52, 53, 54, 55, 56, 57, 43, 47>>

\* '='
PAD == 61

\* data.chunks(n): the pieces of at most n elements, from element i on.
RECURSIVE chunks_from(_, _, _)
chunks_from(seq, n, i) ==
    IF i > Len(seq) THEN <<>>
    ELSE <<SubSeq(seq, i, IF i + n - 1 <= Len(seq) THEN i + n - 1 ELSE Len(seq))>>
             \o chunks_from(seq, n, i + n)

chunks(seq, n) == chunks_from(seq, n, 1)

\* The four characters base64_encode pushes for one chunk, without the pad:
\* the unused sextets of a short chunk are written as data characters.
encode_chunk_unpadded(chunk) ==
    LET buf == [j \in 1 .. 3 |-> IF j <= Len(chunk) THEN chunk[j] ELSE 0]
        b == buf[1] * 65536 + buf[2] * 256 + buf[3]
    IN  <<CHARS[((b \div 262144) % 64) + 1],
          CHARS[((b \div 4096) % 64) + 1],
          CHARS[((b \div 64) % 64) + 1],
          CHARS[(b % 64) + 1]>>

\* The four characters base64_encode pushes for one chunk of 1 .. 3 bytes:
\* b = buf[0] << 16 | buf[1] << 8 | buf[2], then the sextets of b, with '='
\* in place of the third and fourth when the chunk is short.
encode_chunk(chunk) ==
    LET buf == [j \in 1 .. 3 |-> IF j <= Len(chunk) THEN chunk[j] ELSE 0]
        b == buf[1] * 65536 + buf[2] * 256 + buf[3]
    IN  <<CHARS[((b \div 262144) % 64) + 1],
          CHARS[((b \div 4096) % 64) + 1],
          IF Len(chunk) > 1 THEN CHARS[((b \div 64) % 64) + 1] ELSE PAD,
          IF Len(chunk) > 2 THEN CHARS[(b % 64) + 1] ELSE PAD>>

\* `for chunk in data.chunks(3)` of base64_encode from chunk i on.
RECURSIVE encode_loop(_, _, _)
encode_loop(result, cs, i) ==
    IF i > Len(cs) THEN result
    ELSE encode_loop(result \o encode_chunk(cs[i]), cs, i + 1)

base64_encode(data) == encode_loop(<<>>, chunks(data, 3), 1)

Ok(bytes) == [ok |-> TRUE, bytes |-> bytes, err |-> ""]
Err(msg) == [ok |-> FALSE, bytes |-> <<>>, err |-> msg]

\* The `match ch` of base64_decode: the sextet of a character, or no match.
decode_char(ch) ==
    IF ch >= 65 /\ ch <= 90 THEN Some(ch - 65)
    ELSE IF ch >= 97 /\ ch <= 122 THEN Some(ch - 97 + 26)
    ELSE IF ch >= 48 /\ ch <= 57 THEN Some(ch - 48 + 52)
    ELSE IF ch = 43 THEN Some(62)
    ELSE IF ch = 47 THEN Some(63)
    ELSE IF ch = PAD THEN Some(0)
    ELSE None

\* The bytes base64_decode pushes for one chunk of four matching characters:
\* b = values[0] << 18 | values[1] << 12 | values[2] << 6 | values[3].
decode_chunk(chunk) ==
    LET values == [j \in 1 .. 4 |-> decode_char(chunk[j]).v]
        b == values[1] * 262144 + values[2] * 4096 + values[3] * 64 + values[4]
    IN  <<(b \div 65536) % 256>>
        \o (IF chunk[3] # PAD THEN <<(b \div 256) % 256>> ELSE <<>>)
        \o (IF chunk[4] # PAD THEN <<b % 256>> ELSE <<>>)

\* A decode loop that gives back the bytes of the chunks before the defect.
RECURSIVE decode_loop_partial(_, _, _)
decode_loop_partial(result, cs, i) ==
    IF i > Len(cs) THEN Ok(result)
    ELSE IF Len(cs[i]) # 4 THEN Ok(result)
    ELSE IF \E j \in 1 .. 4 : ~decode_char(cs[i][j]).some
    THEN Ok(result)
    ELSE decode_loop_partial(result \o decode_chunk(cs[i]), cs, i + 1)

\* `for chunk in chars.chunks(4)` of base64_decode from chunk i on.
RECURSIVE decode_loop(_, _, _)
decode_loop(result, cs, i) ==
    IF i > Len(cs) THEN Ok(result)
    ELSE IF Len(cs[i]) # 4 THEN Err("Invalid base64 length")
    ELSE IF \E j \in 1 .. 4 : ~decode_char(cs[i][j]).some
    THEN Err("Invalid base64 character")
    ELSE decode_loop(result \o decode_chunk(cs[i]), cs, i + 1)

base64_decode(data) == decode_loop(<<>>, chunks(data, 4), 1)

\* ------------------------------------------------------------------ state
VARIABLES
    MEMORY_CACHE,     \* the static: [poisoned, some, map]
    now,              \* SystemTime::now() in whole seconds since the epoch
    overflow_checks,  \* whether the build panics on u64 overflow (debug) or wraps
    last,             \* the most recent call: operation, arguments, return value
    set_log,          \* history: per key, the time and ttl of the set in force
    lock_owner,       \* the thread holding the MutexGuard of MEMORY_CACHE, or NoThread
    thr,              \* per calling thread: where it is in the handler it runs
    codec,            \* the codec call in progress: its input, text and result
    heap,             \* per heap block: free, or who owns it
    held,             \* per stored key: the block of its entry's value String
    buf,              \* the block the last call returned, or free_string was passed
    gone              \* history, kept when .on: the keys a read reported absent, with no set since

vars == <<MEMORY_CACHE, now, overflow_checks, last, set_log, lock_owner, thr, codec, heap, held, buf, gone>>

EmptyMap == [k \in {} |-> None]

insert(map, k, e) == [x \in (DOMAIN map) \cup {k} |-> IF x = k THEN e ELSE map[x]]
remove(map, k) == [x \in (DOMAIN map) \ {k} |-> map[x]]

\* CacheEntry::new panics on `now + ttl` when the build checks overflow.
new_panics(ttl, t) == overflow_checks /\ ttl > 0 /\ t + ttl > U64_MAX

\* init_memory_cache on an unpoisoned mutex.
init_memory_cache(mc) ==
    IF mc.some THEN mc ELSE [mc EXCEPT !.some = TRUE, !.map = EmptyMap]

\* ---------------------------------------------------------- return values
NoJson == [k \in {} |-> ""]
RetBlank == [kind |-> "none", bool |-> FALSE, ptr |-> NullPtr, num |-> 0, json |-> NoJson]
RetBool(b) == [RetBlank EXCEPT !.kind = "bool", !.bool = b]
RetPtr(p) == [RetBlank EXCEPT !.kind = "ptr", !.ptr = p]
RetU64(n) == [RetBlank EXCEPT !.kind = "u64", !.num = n]
\* get_multiple's buffer: the JSON object serde_json writes for `results`.
RetJson(m) == [RetBlank EXCEPT !.kind = "json", !.json = m]
\* The call did not return: `lock().unwrap()` or `now + ttl` panicked.
RetPanic == [RetBlank EXCEPT !.kind = "panic"]

Out(mc, ret, evicted) == [mc |-> mc, ret |-> ret, evicted |-> evicted]

\* ----------------------------------------------------------------- handlers
\* Each handler as a function of the mutex contents, the arguments and the
\* clock reading; the result is the new contents, the return value and the
\* keys the call removed.

highper_cache_memory_set(mc, kp, vp, ttl, t) ==
    LET k == c_str_to_string(kp)
        v == c_str_to_string(vp)
    IN  IF ~(k.ok /\ v.ok) THEN Out(mc, RetBool(FALSE), {})
        ELSE IF mc.poisoned THEN Out(mc, RetPanic, {})
        ELSE LET c == init_memory_cache(mc) IN
             IF new_panics(ttl, t)
             THEN Out([c EXCEPT !.poisoned = TRUE], RetPanic, {})
             ELSE Out([c EXCEPT !.map = insert(c.map, k.s, CacheEntry_new(v.s, ttl, t))],
                      RetBool(TRUE), {})

highper_cache_memory_get(mc, kp, t) ==
    LET k == c_str_to_string(kp)
    IN  IF ~k.ok THEN Out(mc, RetPtr(NullPtr), {})
        ELSE IF mc.poisoned THEN Out(mc, RetPanic, {})
        ELSE LET c == init_memory_cache(mc) IN
             IF k.s \in DOMAIN c.map
             THEN IF is_expired(c.map[k.s], t)
                  THEN Out([c EXCEPT !.map = remove(c.map, k.s)], RetPtr(NullPtr), {k.s})
                  ELSE Out(c, RetPtr(string_to_c_str(c.map[k.s].value)), {})
             ELSE Out(c, RetPtr(NullPtr), {})

\* delete that reports only the removal of an entry that had not expired.
delete_reports_live(mc, kp) ==
    LET k == c_str_to_string(kp)
    IN  IF ~k.ok THEN Out(mc, RetBool(FALSE), {})
        ELSE IF mc.poisoned THEN Out(mc, RetPanic, {})
        ELSE LET c == init_memory_cache(mc) IN
             Out([c EXCEPT !.map = remove(c.map, k.s)],
                 RetBool(k.s \in DOMAIN c.map /\ ~is_expired(c.map[k.s], now)),
                 {k.s} \cap DOMAIN c.map)

highper_cache_memory_delete(mc, kp) ==
    LET k == c_str_to_string(kp)
    IN  IF ~k.ok THEN Out(mc, RetBool(FALSE), {})
        ELSE IF mc.poisoned THEN Out(mc, RetPanic, {})
        ELSE LET c == init_memory_cache(mc) IN
             Out([c EXCEPT !.map = remove(c.map, k.s)],
                 RetBool(k.s \in DOMAIN c.map),
                 {k.s} \cap DOMAIN c.map)

highper_cache_memory_clear(mc) ==
    IF mc.poisoned THEN Out(mc, RetPanic, {})
    ELSE LET c == init_memory_cache(mc) IN
         Out([c EXCEPT !.map = EmptyMap], RetBool(TRUE), DOMAIN c.map)

\* exists that answers false for an expired entry and leaves it in the map.
exists_no_evict(mc, kp, t) ==
    LET k == c_str_to_string(kp)
    IN  IF ~k.ok THEN Out(mc, RetBool(FALSE), {})
        ELSE IF mc.poisoned THEN Out(mc, RetPanic, {})
        ELSE LET c == init_memory_cache(mc) IN
             IF k.s \in DOMAIN c.map
             THEN IF is_expired(c.map[k.s], t)
                  THEN Out(c, RetBool(FALSE), {})
                  ELSE Out(c, RetBool(TRUE), {})
             ELSE Out(c, RetBool(FALSE), {})

highper_cache_memory_exists(mc, kp, t) ==
    LET k == c_str_to_string(kp)
    IN  IF ~k.ok THEN Out(mc, RetBool(FALSE), {})
        ELSE IF mc.poisoned THEN Out(mc, RetPanic, {})
        ELSE LET c == init_memory_cache(mc) IN
             IF k.s \in DOMAIN c.map
             THEN IF is_expired(c.map[k.s], t)
                  THEN Out([c EXCEPT !.map = remove(c.map, k.s)], RetBool(FALSE), {k.s})
                  ELSE Out(c, RetBool(TRUE), {})
             ELSE Out(c, RetBool(FALSE), {})

\* retain with the expiry test off by one: drops an entry in its last second.
retain_strictly_before(map, t) ==
    [k \in {x \in DOMAIN map :
               ~(map[x].expires_at.some /\ t >= map[x].expires_at.v)} |-> map[k]]

\* map.retain(|_, entry| !entry.is_expired())
retain_unexpired(map, t) ==
    [k \in {x \in DOMAIN map : ~is_expired(map[x], t)} |-> map[k]]

highper_cache_memory_cleanup(mc, t) ==
    IF mc.poisoned THEN Out(mc, RetPanic, {})
    ELSE LET c == init_memory_cache(mc)
             kept == retain_unexpired(c.map, t)
         IN  Out([c EXCEPT !.map = kept],
                 RetU64(Cardinality(DOMAIN c.map) - Cardinality(DOMAIN kept)),
                 (DOMAIN c.map) \ (DOMAIN kept))

\* count of the entries that have not expired, instead of map.len().
count_live(mc) ==
    IF mc.poisoned THEN Out(mc, RetPanic, {})
    ELSE LET c == init_memory_cache(mc) IN
         Out(c, RetU64(Cardinality({k \in DOMAIN c.map : ~is_expired(c.map[k], now)})), {})

highper_cache_memory_count(mc) ==
    IF mc.poisoned THEN Out(mc, RetPanic, {})
    ELSE LET c == init_memory_cache(mc) IN
         Out(c, RetU64(Cardinality(DOMAIN c.map)), {})

\* The loop body of set_multiple with an insert that keeps an entry already
\* under the key (entry(key).or_insert) instead of replacing it.
set_multiple_body_first_wins(st, item, t) ==
    LET k == c_str_to_string(item.key)
        v == c_str_to_string(item.value)
    IN  IF k.ok /\ v.ok
        THEN IF new_panics(item.ttl, t)
             THEN [st EXCEPT !.panicked = TRUE]
             ELSE [st EXCEPT !.map = IF k.s \in DOMAIN st.map THEN st.map
                                     ELSE insert(st.map, k.s, CacheEntry_new(v.s, item.ttl, t)),
                             !.success_count = st.success_count + 1]
        ELSE st

\* One pass of the body of set_multiple's loop, on the tuple `item` at clock
\* reading t: a tuple whose key or value does not decode is skipped; in an
\* overflow-checking build CacheEntry::new may panic, and the loop stops there
\* with the earlier tuples already inserted.
set_multiple_body(st, item, t) ==
    LET k == c_str_to_string(item.key)
        v == c_str_to_string(item.value)
    IN  IF k.ok /\ v.ok
        THEN IF new_panics(item.ttl, t)
             THEN [st EXCEPT !.panicked = TRUE]
             ELSE [st EXCEPT !.map = insert(st.map, k.s, CacheEntry_new(v.s, item.ttl, t)),
                             !.success_count = st.success_count + 1]
        ELSE st

\* `for i in 0..count` of set_multiple from tuple i on; ts[i] is the clock
\* reading CacheEntry::new takes for tuple i.
RECURSIVE set_multiple_loop(_, _, _, _)
set_multiple_loop(st, items, i, ts) ==
    IF i > Len(items) \/ st.panicked THEN st
    ELSE set_multiple_loop(set_multiple_body(st, items[i], ts[i]), items, i + 1, ts)

\* set_multiple with the clock readings ts, one for each tuple.
set_multiple_reading(mc, items, ts) ==
    IF mc.poisoned THEN Out(mc, RetPanic, {})
    ELSE LET c == init_memory_cache(mc)
             r == set_multiple_loop(
                      [map |-> c.map, success_count |-> 0, panicked |-> FALSE],
                      items, 1, ts)
         IN  IF r.panicked
             THEN Out([c EXCEPT !.map = r.map, !.poisoned = TRUE], RetPanic, {})
             ELSE Out([c EXCEPT !.map = r.map], RetU64(r.success_count), {})

\* The same clock reading for each of n loop passes.
Reading(n, t) == [j \in 1 .. n |-> t]

highper_cache_memory_set_multiple(mc, items, t) ==
    set_multiple_reading(mc, items, Reading(Len(items), t))

\* The loop body of get_multiple without the removal of an expired entry.
get_multiple_body_no_evict(st, kp, t) ==
    LET k == c_str_to_string(kp)
    IN  IF k.ok /\ k.s \in DOMAIN st.map /\ ~is_expired(st.map[k.s], t)
        THEN [st EXCEPT !.results =
                 [x \in (DOMAIN st.results) \cup {k.s} |->
                     IF x = k.s THEN st.map[k.s].value ELSE st.results[x]]]
        ELSE st

\* One pass of the body of get_multiple's loop, on the key pointer kp at
\* clock reading t.
get_multiple_body(st, kp, t) ==
    LET k == c_str_to_string(kp)
    IN  IF k.ok /\ k.s \in DOMAIN st.map
        THEN IF ~is_expired(st.map[k.s], t)
             THEN [st EXCEPT !.results =
                      [x \in (DOMAIN st.results) \cup {k.s} |->
                          IF x = k.s THEN st.map[k.s].value ELSE st.results[x]]]
             ELSE [st EXCEPT !.map = remove(st.map, k.s)]
        ELSE st

\* `for i in 0..count` of get_multiple from key i on; ts[i] is the clock
\* reading is_expired takes for key i.
RECURSIVE get_multiple_loop(_, _, _, _)
get_multiple_loop(st, keys, i, ts) ==
    IF i > Len(keys) THEN st
    ELSE get_multiple_loop(get_multiple_body(st, keys[i], ts[i]), keys, i + 1, ts)

\* get_multiple with the clock readings ts, one for each key.
get_multiple_reading(mc, keys, ts) ==
    IF mc.poisoned THEN Out(mc, RetPanic, {})
    ELSE LET c == init_memory_cache(mc)
             r == get_multiple_loop([map |-> c.map, results |-> NoJson], keys, 1, ts)
         IN  Out([c EXCEPT !.map = r.map], RetJson(r.results),
                 (DOMAIN c.map) \ (DOMAIN r.map))

highper_cache_memory_get_multiple(mc, keys, t) ==
    get_multiple_reading(mc, keys, Reading(Len(keys), t))

\* ------------------------------------------------------------ call inputs
Item(kp, vp, ttl) == [key |-> kp, value |-> vp, ttl |-> ttl]

\* Tuples of a set_multiple batch: the key "a" with two different values and
\* ttls (one the largest ttl), the null key without expiry, a tuple whose key
\* does not decode and one whose value does not.
BatchItems ==
    {Item(CStr("a"), CStr("x"), 1),
     Item(CStr("a"), NullPtr, U64_MAX),
     Item(NullPtr, CStr("x"), 0),
     Item(BadCStr, CStr("x"), 1),
     Item(CStr("a"), BadCStr, 1)}

SeqsUpTo(S, n) == UNION {[1 .. m -> S] : m \in 0 .. n}

Batches == SeqsUpTo(BatchItems, MaxBatch)
KeyLists == SeqsUpTo(KeyPtrs, MaxBatch)

\* ---------------------------------------------------------------- history
Unset == [set |-> FALSE, at |-> 0, ttl |-> 0]
SetAt(t, ttl) == [set |-> TRUE, at |-> t, ttl |-> ttl]

\* The log after the tuples set_multiple applied (those before a panic).
RECURSIVE log_batch(_, _, _, _)
log_batch(log, items, i, t) ==
    IF i > Len(items) THEN log
    ELSE LET k == c_str_to_string(items[i].key)
             v == c_str_to_string(items[i].value)
         IN  IF k.ok /\ v.ok
             THEN IF new_panics(items[i].ttl, t) THEN log
                  ELSE log_batch([log EXCEPT ![k.s] = SetAt(t, items[i].ttl)],
                                 items, i + 1, t)
             ELSE log_batch(log, items, i + 1, t)

\* The entries of the map whose expiry lies before clock reading t.
PastExpiry(mc, t) ==
    {k \in DOMAIN mc.map : mc.map[k].expires_at.some /\ mc.map[k].expires_at.v < t}

\* The record of a call: the handler, its arguments, what it buf, the
\* keys it removed, and the keys whose expiry had passed when it was made.
Call(op) ==
    [op |-> op, key |-> NullPtr, value |-> NullPtr, ttl |-> 0,
     items |-> <<>>, keys |-> <<>>, ret |-> RetBlank, evicted |-> {}, stale |-> {}]

Idle == Call("idle")

\* The keys a returning read reported absent: the key of a get that returned
\* null or of an exists that returned false, and the requested keys that a
\* get_multiple left out of its mapping.
reported_absent(call, out) ==
    IF out.ret.kind = "panic" THEN {}
    ELSE CASE call.op = "get" ->
                IF c_str_to_string(call.key).ok /\ out.ret.ptr.null
                THEN {c_str_to_string(call.key).s} ELSE {}
           [] call.op = "exists" ->
                IF c_str_to_string(call.key).ok /\ ~out.ret.bool
                THEN {c_str_to_string(call.key).s} ELSE {}
           [] call.op = "get_multiple" ->
                {c_str_to_string(call.keys[i]).s :
                    i \in {j \in 1 .. Len(call.keys) : c_str_to_string(call.keys[j]).ok}}
                \ DOMAIN out.ret.json
           [] OTHER -> {}

\* The keys a set or set_multiple inserted an entry for: the key of a set that
\* returned true, the keys of the tuples a set_multiple applied (those before
\* a panic).
inserted_keys(call, mc, out, t) ==
    CASE call.op = "set" ->
            IF out.ret = RetBool(TRUE) THEN {c_str_to_string(call.key).s} ELSE {}
      [] call.op = "set_multiple" ->
            IF mc.poisoned THEN {}
            ELSE LET items == call.items
                     valid == {i \in 1 .. Len(items) :
                                  /\ c_str_to_string(items[i].key).ok
                                  /\ c_str_to_string(items[i].value).ok}
                 IN  {c_str_to_string(items[i].key).s :
                         i \in {j \in valid :
                                   \A h \in valid : h <= j => ~new_panics(items[h].ttl, t)}}
      [] OTHER -> {}

gone_after(g, call, mc, out, t) ==
    (g \cup reported_absent(call, out)) \ inserted_keys(call, mc, out, t)

\* The history of absent keys is not kept.
NoHistory == [on |-> FALSE, keys |-> {}]

\* A handler runs from entry to return (or panic) as one step, on one clock
\* reading; `last` keeps the call until the caller has taken the result.
Done(call, out) ==
    /\ last = Idle
    /\ MEMORY_CACHE' = out.mc
    /\ last' = [call EXCEPT !.ret = out.ret, !.evicted = out.evicted,
                             !.stale = PastExpiry(MEMORY_CACHE, now)]
    /\ gone' = IF gone.on
               THEN [gone EXCEPT !.keys = gone_after(gone.keys, call, MEMORY_CACHE, out, now)]
               ELSE gone
    /\ UNCHANGED <<now, overflow_checks, lock_owner, thr, codec, heap, held, buf>>

\* ---------------------------------------------------------------- threads
\* The callers of the concurrent specification.
Threads == {1, 2}
NoThread == 0

\* A thread outside any handler.
Resting ==
    [pc |-> "idle", call |-> Idle, i |-> 0, success_count |-> 0, results |-> NoJson,
     snap |-> [poisoned |-> FALSE, some |-> FALSE, map |-> EmptyMap], reads |-> <<>>]

\* ------------------------------------------------------------------- heap
\* The blocks of the allocator; block CallerBlock is the caller's own buffer,
\* the one its key and value pointers point into.
Addr == 1 .. MaxBufs
NullAddr == 0
CallerBlock == 1

\* A block is "free", or owned by a stored entry ("entry": the value String
\* of a CacheEntry in the map), by the caller who was handed it by into_raw
\* ("out"), or the caller's from the start ("input").
NoHeap == [a \in Addr |-> IF a = CallerBlock THEN "input" ELSE "free"]
NoneHeld == [k \in {} |-> NullAddr]

\* Dropping the entries of the keys ks frees their value Strings.
drop(h, hl, ks) ==
    [a \in Addr |-> IF \E k \in ks \cap DOMAIN hl : hl[k] = a THEN "free" ELSE h[a]]

forget(hl, ks) == [k \in (DOMAIN hl) \ ks |-> hl[k]]

\* map.insert(key_str, entry): the value String, allocated in block a by
\* c_str_to_string's to_string(), moves into the map; the entry it replaces
\* is dropped.
insert_held(h, hl, k, a) ==
    [heap |-> [drop(h, hl, {k}) EXCEPT ![a] = "entry"],
     held |-> [x \in (DOMAIN hl) \cup {k} |-> IF x = k THEN a ELSE hl[x]]]

\* get handing out the entry's own buffer instead of a copy.
value_as_ptr(hl, k, a) == hl[k]

\* entry.value.clone() and string_to_c_str: the copy is made in block a and
\* CString::into_raw hands that block out.
value_clone_into_raw(hl, k, a) == a

\* free_string that forgets the buffer without freeing it.
free_string_leak(h, ptr) == h

\* highper_cache_free_string: null is left alone; CString::from_raw takes the
\* block back and its drop frees it.
highper_cache_free_string(h, ptr) ==
    IF ptr # NullAddr THEN [h EXCEPT ![ptr] = "free"] ELSE h

\* No codec call is in progress.
CodecOff ==
    [pc |-> "off", data |-> <<>>, text |-> <<>>, encoded |-> FALSE, decoded |-> Ok(<<>>)]

\* ------------------------------------------------------------------ actions
Init ==
    /\ MEMORY_CACHE = [poisoned |-> FALSE, some |-> FALSE, map |-> EmptyMap]
    /\ now \in Time
    /\ overflow_checks \in BOOLEAN
    /\ last = Idle
    /\ set_log = [k \in Keys |-> Unset]
    /\ lock_owner = NoThread
    /\ thr = [t \in Threads |-> Resting]
    /\ codec = CodecOff
    /\ heap = NoHeap
    /\ held = NoneHeld
    /\ buf = NullAddr
    /\ gone = NoHistory

Set ==
    \E kp \in KeyPtrs, vp \in ValuePtrs, ttl \in TTLs :
        LET out == highper_cache_memory_set(MEMORY_CACHE, kp, vp, ttl, now) IN
        /\ Done([Call("set") EXCEPT !.key = kp, !.value = vp, !.ttl = ttl], out)
        /\ set_log' = IF out.ret = RetBool(TRUE)
                      THEN [set_log EXCEPT ![c_str_to_string(kp).s] = SetAt(now, ttl)]
                      ELSE set_log

Get ==
    \E kp \in KeyPtrs :
        /\ Done([Call("get") EXCEPT !.key = kp],
                highper_cache_memory_get(MEMORY_CACHE, kp, now))
        /\ UNCHANGED set_log

Delete ==
    \E kp \in KeyPtrs :
        LET out == highper_cache_memory_delete(MEMORY_CACHE, kp) IN
        /\ Done([Call("delete") EXCEPT !.key = kp], out)
        /\ set_log' = IF c_str_to_string(kp).ok /\ out.ret.kind = "bool"
                      THEN [set_log EXCEPT ![c_str_to_string(kp).s] = Unset]
                      ELSE set_log

Clear ==
    LET out == highper_cache_memory_clear(MEMORY_CACHE) IN
    /\ Done(Call("clear"), out)
    /\ set_log' = IF out.ret = RetBool(TRUE) THEN [k \in Keys |-> Unset] ELSE set_log

Exists ==
    \E kp \in KeyPtrs :
        /\ Done([Call("exists") EXCEPT !.key = kp],
                highper_cache_memory_exists(MEMORY_CACHE, kp, now))
        /\ UNCHANGED set_log

Cleanup ==
    /\ Done(Call("cleanup"), highper_cache_memory_cleanup(MEMORY_CACHE, now))
    /\ UNCHANGED set_log

Count ==
    /\ Done(Call("count"), highper_cache_memory_count(MEMORY_CACHE))
    /\ UNCHANGED set_log

SetMultiple ==
    \E items \in Batches :
        /\ Done([Call("set_multiple") EXCEPT !.items = items],
                highper_cache_memory_set_multiple(MEMORY_CACHE, items, now))
        /\ set_log' = IF MEMORY_CACHE.poisoned THEN set_log
                      ELSE log_batch(set_log, items, 1, now)

GetMultiple ==
    \E keys \in KeyLists :
        /\ Done([Call("get_multiple") EXCEPT !.keys = keys],
                highper_cache_memory_get_multiple(MEMORY_CACHE, keys, now))
        /\ UNCHANGED set_log

\* The wall clock moves on by a second.
Tick ==
    /\ last = Idle
    /\ now < MaxNow
    /\ now' = now + 1
    /\ UNCHANGED <<MEMORY_CACHE, overflow_checks, last, set_log, lock_owner, thr, codec, heap, held, buf, gone>>

\* The wall clock is set back (SystemTime is not monotonic).
ClockBack ==
    /\ last = Idle
    /\ \E t \in Time : t < now /\ now' = t
    /\ UNCHANGED <<MEMORY_CACHE, overflow_checks, last, set_log, lock_owner, thr, codec, heap, held, buf, gone>>

\* The caller takes the result of the call; the next call can be made.
Return ==
    /\ last # Idle
    /\ last' = Idle
    /\ UNCHANGED <<MEMORY_CACHE, now, overflow_checks, set_log, lock_owner, thr, codec, heap, held, buf, gone>>

Handlers ==
    \/ Set \/ Get \/ Delete \/ Clear \/ Exists
    \/ Cleanup \/ Count \/ SetMultiple \/ GetMultiple

Next == Handlers \/ Return \/ Tick

\* One caller at a time, the clock moving forward.
Spec == Init /\ [][Next]_vars

NextSkew == Next \/ ClockBack

\* The same program under a wall clock that can also be set back.
SpecSkew == Init /\ [][NextSkew]_vars

\* The start of Init, with the history of the keys reported absent kept.
InitAbsent ==
    /\ MEMORY_CACHE = [poisoned |-> FALSE, some |-> FALSE, map |-> EmptyMap]
    /\ now \in Time
    /\ overflow_checks \in BOOLEAN
    /\ last = Idle
    /\ set_log = [k \in Keys |-> Unset]
    /\ lock_owner = NoThread
    /\ thr = [t \in Threads |-> Resting]
    /\ codec = CodecOff
    /\ heap = NoHeap
    /\ held = NoneHeld
    /\ buf = NullAddr
    /\ gone = [NoHistory EXCEPT !.on = TRUE]

\* The batches and key lists the callers of this specification pass.
AbsentBatches ==
    {<<Item(CStr("a"), CStr("x"), 1), Item(NullPtr, CStr("x"), 0)>>,
     <<Item(CStr("a"), CStr("x"), 0), Item(CStr("a"), NullPtr, U64_MAX)>>,
     <<Item(BadCStr, CStr("x"), 1)>>}

AbsentKeyLists == {<<CStr("a"), NullPtr>>, <<BadCStr, CStr("a")>>}

AbsentSetMultiple ==
    \E items \in AbsentBatches :
        /\ Done([Call("set_multiple") EXCEPT !.items = items],
                highper_cache_memory_set_multiple(MEMORY_CACHE, items, now))
        /\ set_log' = IF MEMORY_CACHE.poisoned THEN set_log
                      ELSE log_batch(set_log, items, 1, now)

AbsentGetMultiple ==
    \E keys \in AbsentKeyLists :
        /\ Done([Call("get_multiple") EXCEPT !.keys = keys],
                highper_cache_memory_get_multiple(MEMORY_CACHE, keys, now))
        /\ UNCHANGED set_log

NextAbsent ==
    \/ Set \/ Get \/ Delete \/ Clear \/ Exists
    \/ Cleanup \/ Count \/ AbsentSetMultiple \/ AbsentGetMultiple
    \/ Return \/ Tick \/ ClockBack

\* One caller at a time under a wall clock that can be set back, with the
\* reads that reported a key absent remembered.
SpecAbsent == InitAbsent /\ [][NextAbsent]_vars

\* ------------------------------------------------- concurrent callers
\* The calls the threads make.
ConcCalls ==
    {[Call("set") EXCEPT !.key = CStr("a"), !.value = CStr("x"), !.ttl = ttl] :
        ttl \in {1, U64_MAX}}
    \cup {[Call("get") EXCEPT !.key = kp] : kp \in {CStr("a"), BadCStr}}
    \cup {[Call("exists") EXCEPT !.key = CStr("a")],
          [Call("delete") EXCEPT !.key = CStr("a")],
          Call("clear"), Call("cleanup"), Call("count")}
    \cup {[Call("set_multiple") EXCEPT !.items = b] :
            b \in {<<Item(CStr("a"), CStr("x"), 1), Item(NullPtr, CStr("x"), 0)>>,
                   <<Item(BadCStr, CStr("x"), 1), Item(CStr("a"), NullPtr, U64_MAX)>>}}
    \cup {[Call("get_multiple") EXCEPT !.keys = <<CStr("a"), NullPtr>>]}

\* The handlers that decode their key (and value) before init_memory_cache.
DecodesFirst(call) == call.op \in {"set", "get", "delete", "exists"}
DecodeFails(call) ==
    \/ ~c_str_to_string(call.key).ok
    \/ call.op = "set" /\ ~c_str_to_string(call.value).ok

\* What a handler returns when its `if let Ok(..)` does not match.
FailureValue(call) == IF call.op = "get" THEN RetPtr(NullPtr) ELSE RetBool(FALSE)

\* A lock that never waits for the guard to be dropped.
mutex_unguarded == TRUE

\* Mutex::lock returns once no other thread holds the guard.
mutex_free == lock_owner = NoThread

Step(t, th) ==
    /\ thr' = [thr EXCEPT ![t] = th]
    /\ UNCHANGED <<now, overflow_checks, last, set_log, codec, heap, held, buf, gone>>

\* A thread enters a handler; a key or value that does not decode makes the
\* handler return at once, without touching the mutex.
Begin(t) ==
    /\ thr[t].pc = "idle"
    /\ \E call \in ConcCalls :
          IF DecodesFirst(call) /\ DecodeFails(call)
          THEN Step(t, [thr[t] EXCEPT !.pc = "ret", !.call = [call EXCEPT !.ret = FailureValue(call)]])
          ELSE Step(t, [thr[t] EXCEPT !.pc = "init", !.call = call])
    /\ UNCHANGED <<MEMORY_CACHE, lock_owner>>

\* The handler returns the failure value of a decode error.
ReturnFailure(t) ==
    /\ thr[t].pc = "ret"
    /\ Step(t, Resting)
    /\ UNCHANGED <<MEMORY_CACHE, lock_owner>>

\* init_memory_cache: MEMORY_CACHE.lock().unwrap()
InitLock(t) ==
    /\ thr[t].pc = "init"
    /\ mutex_free
    /\ IF MEMORY_CACHE.poisoned
       THEN Step(t, [thr[t] EXCEPT !.pc = "panicked"]) /\ UNCHANGED lock_owner
       ELSE Step(t, [thr[t] EXCEPT !.pc = "init_held"]) /\ lock_owner' = t
    /\ UNCHANGED MEMORY_CACHE

\* init_memory_cache: the map is created if there is none, the guard dropped.
InitUnlock(t) ==
    /\ thr[t].pc = "init_held"
    /\ MEMORY_CACHE' = init_memory_cache(MEMORY_CACHE)
    /\ lock_owner' = NoThread
    /\ Step(t, [thr[t] EXCEPT !.pc = "lock"])

\* The handler's own MEMORY_CACHE.lock().unwrap()
Lock(t) ==
    /\ thr[t].pc = "lock"
    /\ mutex_free
    /\ IF MEMORY_CACHE.poisoned
       THEN Step(t, [thr[t] EXCEPT !.pc = "panicked"]) /\ UNCHANGED lock_owner
       ELSE /\ Step(t, [thr[t] EXCEPT !.pc = "body", !.i = 1, !.snap = MEMORY_CACHE])
            /\ lock_owner' = t
    /\ UNCHANGED MEMORY_CACHE

\* The handler applied to the guarded map at the current clock reading.
Applied(call) ==
    CASE call.op = "set" ->
            highper_cache_memory_set(MEMORY_CACHE, call.key, call.value, call.ttl, now)
      [] call.op = "get" -> highper_cache_memory_get(MEMORY_CACHE, call.key, now)
      [] call.op = "delete" -> highper_cache_memory_delete(MEMORY_CACHE, call.key)
      [] call.op = "clear" -> highper_cache_memory_clear(MEMORY_CACHE)
      [] call.op = "exists" -> highper_cache_memory_exists(MEMORY_CACHE, call.key, now)
      [] call.op = "cleanup" -> highper_cache_memory_cleanup(MEMORY_CACHE, now)
      [] call.op = "count" -> highper_cache_memory_count(MEMORY_CACHE)

\* A panic under the guard: the guard is dropped while unwinding, which
\* poisons the mutex; the thread does not return.
Panics(t, mc) ==
    /\ MEMORY_CACHE' = [mc EXCEPT !.poisoned = TRUE]
    /\ lock_owner' = NoThread
    /\ Step(t, [thr[t] EXCEPT !.pc = "panicked"])

\* The body of set, delete, clear, cleanup and count under the guard, and
\* the lookup and expiry test of get and exists.
Body(t) ==
    /\ thr[t].pc = "body"
    /\ thr[t].call.op \notin {"set_multiple", "get_multiple"}
    /\ LET call == thr[t].call
           out == Applied(call)
           done == [thr[t] EXCEPT !.call.ret = out.ret, !.reads = <<now>>]
       IN  IF out.ret = RetPanic
           THEN Panics(t, out.mc)
           ELSE IF call.op \in {"get", "exists"} /\ out.evicted # {}
           THEN /\ Step(t, [done EXCEPT !.pc = "evict"])
                /\ UNCHANGED <<MEMORY_CACHE, lock_owner>>
           ELSE /\ MEMORY_CACHE' = out.mc
                /\ Step(t, [done EXCEPT !.pc = "unlock"])
                /\ UNCHANGED lock_owner

\* get / exists: map.remove(&key_str) of the entry found expired.
Evict(t) ==
    /\ thr[t].pc = "evict"
    /\ MEMORY_CACHE' = [MEMORY_CACHE EXCEPT
                           !.map = remove(MEMORY_CACHE.map, c_str_to_string(thr[t].call.key).s)]
    /\ Step(t, [thr[t] EXCEPT !.pc = "unlock"])
    /\ UNCHANGED lock_owner

\* One pass of the loop of set_multiple, or its `return success_count`.
SetMultiplePass(t) ==
    /\ thr[t].pc = "body"
    /\ thr[t].call.op = "set_multiple"
    /\ LET th == thr[t]
           items == th.call.items
       IN  IF th.i > Len(items)
           THEN /\ Step(t, [th EXCEPT !.pc = "unlock", !.call.ret = RetU64(th.success_count)])
                /\ UNCHANGED <<MEMORY_CACHE, lock_owner>>
           ELSE LET r == set_multiple_body(
                             [map |-> MEMORY_CACHE.map, success_count |-> th.success_count,
                              panicked |-> FALSE],
                             items[th.i], now)
                IN  IF r.panicked
                    THEN Panics(t, MEMORY_CACHE)
                    ELSE /\ MEMORY_CACHE' = [MEMORY_CACHE EXCEPT !.map = r.map]
                         /\ Step(t, [th EXCEPT !.i = th.i + 1,
                                               !.success_count = r.success_count,
                                               !.reads = Append(th.reads, now)])
                         /\ UNCHANGED lock_owner

\* One pass of the loop of get_multiple, or the return of its JSON buffer.
GetMultiplePass(t) ==
    /\ thr[t].pc = "body"
    /\ thr[t].call.op = "get_multiple"
    /\ LET th == thr[t]
           keys == th.call.keys
       IN  IF th.i > Len(keys)
           THEN /\ Step(t, [th EXCEPT !.pc = "unlock", !.call.ret = RetJson(th.results)])
                /\ UNCHANGED <<MEMORY_CACHE, lock_owner>>
           ELSE LET r == get_multiple_body(
                             [map |-> MEMORY_CACHE.map, results |-> th.results],
                             keys[th.i], now)
                IN  /\ MEMORY_CACHE' = [MEMORY_CACHE EXCEPT !.map = r.map]
                    /\ Step(t, [th EXCEPT !.i = th.i + 1, !.results = r.results,
                                          !.reads = Append(th.reads, now)])
                    /\ UNCHANGED lock_owner

\* The handler returns; the guard is dropped.
Unlock(t) ==
    /\ thr[t].pc = "unlock"
    /\ lock_owner' = NoThread
    /\ Step(t, Resting)
    /\ UNCHANGED MEMORY_CACHE

ThreadStep(t) ==
    \/ Begin(t) \/ ReturnFailure(t)
    \/ InitLock(t) \/ InitUnlock(t) \/ Lock(t)
    \/ Body(t) \/ Evict(t) \/ SetMultiplePass(t) \/ GetMultiplePass(t)
    \/ Unlock(t)

NextConc == (\E t \in Threads : ThreadStep(t)) \/ Tick

\* Two threads calling the handlers concurrently, the clock moving forward.
SpecConc == Init /\ [][NextConc]_vars

\* Fair scheduling: a thread that can take a step of its handler eventually
\* takes one, and a thread waiting in lock() is not passed over for ever
\* while the mutex keeps becoming free.
Fairness ==
    \A t \in Threads :
        /\ WF_vars(ReturnFailure(t) \/ InitUnlock(t) \/ Body(t) \/ Evict(t)
                      \/ SetMultiplePass(t) \/ GetMultiplePass(t) \/ Unlock(t))
        /\ SF_vars(InitLock(t))
        /\ SF_vars(Lock(t))

SpecConcFair == SpecConc /\ Fairness

\* ------------------------------------------------------------ codec calls
Byte == 0 .. 255

\* Bytes whose sextets fall in each range of the alphabet ('A'.., 'a'..,
\* '0'.., '+', '/').
SampleBytes == {0, 108, 211, 251, 255}

\* The inputs of base64_encode: every sequence of sample bytes up to MaxData,
\* and the chunks of one to three bytes in which one position takes every
\* byte value and the others are 0 or 255.
ByteSeqs ==
    SeqsUpTo(SampleBytes, MaxData)
    \cup {[j \in 1 .. n |-> IF j = pos THEN b ELSE f] :
            n \in 1 .. 3, pos \in 1 .. 3, b \in Byte, f \in {0, 255}}

\* 'A', '/', '=' and a character outside the alphabet ('*').
TextChars == {65, 47, PAD, 42}

\* The inputs of base64_decode that no encode produced: every text of these
\* characters up to MaxText, and the groups of four in which one position
\* takes every character up to U+00FF and the others are 'A'.
Texts ==
    SeqsUpTo(TextChars, MaxText)
    \cup {[j \in 1 .. 4 |-> IF j = pos THEN c ELSE 65] : pos \in 1 .. 4, c \in 0 .. 255}

\* A codec call starts on bytes to encode (and decode again) or on a text to
\* decode; the store is not involved.
InitCodec ==
    /\ MEMORY_CACHE = [poisoned |-> FALSE, some |-> FALSE, map |-> EmptyMap]
    /\ now = 0
    /\ overflow_checks = FALSE
    /\ last = Idle
    /\ set_log = [k \in Keys |-> Unset]
    /\ lock_owner = NoThread
    /\ thr = [t \in Threads |-> Resting]
    /\ heap = NoHeap
    /\ held = NoneHeld
    /\ buf = NullAddr
    /\ gone = NoHistory
    /\ \/ \E data \in ByteSeqs : codec = [CodecOff EXCEPT !.pc = "encode", !.data = data]
       \/ \E text \in Texts : codec = [CodecOff EXCEPT !.pc = "decode", !.text = text]

\* base64_encode(&compressed)
Encode ==
    /\ codec.pc = "encode"
    /\ codec' = [codec EXCEPT !.pc = "decode", !.text = base64_encode(codec.data),
                              !.encoded = TRUE]
    /\ UNCHANGED <<MEMORY_CACHE, now, overflow_checks, last, set_log, lock_owner, thr, heap, held, buf, gone>>

\* base64_decode(&data_str)
Decode ==
    /\ codec.pc = "decode"
    /\ codec' = [codec EXCEPT !.pc = "done", !.decoded = base64_decode(codec.text)]
    /\ UNCHANGED <<MEMORY_CACHE, now, overflow_checks, last, set_log, lock_owner, thr, heap, held, buf, gone>>

NextCodec == Encode \/ Decode

\* The codec on its own: encode then decode, or decode of a given text.
SpecCodec == InitCodec /\ [][NextCodec]_vars

\* ------------------------------------------------------- boundary buffers
\* The calls of the buffer specification.
BufKeyPtrs == {CStr("a"), BadCStr}
BufTTLs == {0, 1}

BufInit ==
    /\ MEMORY_CACHE = [poisoned |-> FALSE, some |-> FALSE, map |-> EmptyMap]
    /\ now = 0
    /\ overflow_checks = FALSE
    /\ last = Idle
    /\ set_log = [k \in Keys |-> Unset]
    /\ lock_owner = NoThread
    /\ thr = [t \in Threads |-> Resting]
    /\ codec = CodecOff
    /\ heap = NoHeap
    /\ held = NoneHeld
    /\ buf = NullAddr
    /\ gone = NoHistory

\* A call of the buffer specification ran to its return.
BufDone(call, out) ==
    /\ MEMORY_CACHE' = out.mc
    /\ last' = [Call(call.op) EXCEPT !.ret = out.ret]
    /\ UNCHANGED <<now, overflow_checks, set_log, lock_owner, thr, codec, gone>>

\* highper_cache_version: string_to_c_str("1.0.0".to_string())
BufVersion ==
    \E a \in Addr :
        /\ heap[a] = "free"
        /\ heap' = [heap EXCEPT ![a] = "out"]
        /\ buf' = a
        /\ last' = [Call("version") EXCEPT !.ret = RetPtr(string_to_c_str("1.0.0"))]
        /\ UNCHANGED <<MEMORY_CACHE, now, overflow_checks, set_log, lock_owner, thr,
                       codec, held, gone>>

\* set: the value is copied into a String of the engine's own, which the map
\* keeps; the caller's buffers are only read.
BufSet ==
    \E kp \in BufKeyPtrs, ttl \in BufTTLs :
        LET out == highper_cache_memory_set(MEMORY_CACHE, kp, CStr("x"), ttl, now)
            k == c_str_to_string(kp)
        IN  /\ BufDone([Call("set") EXCEPT !.key = kp, !.value = CStr("x"), !.ttl = ttl], out)
            /\ IF out.ret = RetBool(TRUE)
               THEN \E a \in Addr :
                        /\ heap[a] = "free"
                        /\ heap' = insert_held(heap, held, k.s, a).heap
                        /\ held' = insert_held(heap, held, k.s, a).held
               ELSE UNCHANGED <<heap, held>>
            /\ buf' = NullAddr

\* get: a value found is cloned and the clone handed out; an entry found
\* expired is dropped.
BufGet ==
    \E kp \in BufKeyPtrs :
        LET out == highper_cache_memory_get(MEMORY_CACHE, kp, now)
            k == c_str_to_string(kp)
        IN  /\ BufDone([Call("get") EXCEPT !.key = kp], out)
            /\ IF ~out.ret.ptr.null
               THEN \E a \in Addr :
                        /\ heap[a] = "free"
                        /\ heap' = [heap EXCEPT ![value_clone_into_raw(held, k.s, a)] = "out"]
                        /\ buf' = value_clone_into_raw(held, k.s, a)
                        /\ UNCHANGED held
               ELSE /\ heap' = drop(heap, held, out.evicted)
                    /\ held' = forget(held, out.evicted)
                    /\ buf' = NullAddr

\* delete, clear, exists, cleanup and count return no buffer; the entries
\* they remove are dropped.
BufRemove ==
    \E call \in {[Call(op) EXCEPT !.key = kp] : op \in {"delete", "exists"}, kp \in BufKeyPtrs}
                 \cup {Call("clear"), Call("cleanup"), Call("count")} :
        LET out == Applied(call)
        IN  /\ BufDone(call, out)
            /\ heap' = drop(heap, held, out.evicted)
            /\ held' = forget(held, out.evicted)
            /\ buf' = NullAddr

\* The blocks and the map's Strings after the tuples of a set_multiple from
\* tuple i on, the value of tuple j going to block addrs[j] (no block for a
\* tuple that is skipped); ok is false when a block chosen was not free.
RECURSIVE batch_held(_, _, _, _, _)
batch_held(h, hl, items, i, addrs) ==
    IF i > Len(items) THEN [heap |-> h, held |-> hl, ok |-> TRUE]
    ELSE LET k == c_str_to_string(items[i].key)
             v == c_str_to_string(items[i].value)
         IN  IF k.ok /\ v.ok
             THEN IF addrs[i] = NullAddr \/ h[addrs[i]] # "free"
                  THEN [heap |-> h, held |-> hl, ok |-> FALSE]
                  ELSE LET r == insert_held(h, hl, k.s, addrs[i])
                       IN  batch_held(r.heap, r.held, items, i + 1, addrs)
             ELSE IF addrs[i] # NullAddr THEN [heap |-> h, held |-> hl, ok |-> FALSE]
                  ELSE batch_held(h, hl, items, i + 1, addrs)

BufBatches ==
    {<<Item(CStr("a"), CStr("x"), 1), Item(NullPtr, CStr("x"), 0)>>,
     <<Item(BadCStr, CStr("x"), 1), Item(CStr("a"), CStr("x"), 0)>>,
     <<Item(CStr("a"), CStr("x"), 0), Item(CStr("a"), CStr("x"), 1)>>}

BufKeyLists == {<<CStr("a"), NullPtr>>, <<BadCStr, CStr("a")>>}

BufSetMultiple ==
    \E items \in BufBatches :
        /\ BufDone([Call("set_multiple") EXCEPT !.items = items],
                   highper_cache_memory_set_multiple(MEMORY_CACHE, items, now))
        /\ \E addrs \in [1 .. 2 -> Addr \cup {NullAddr}] :
              LET r == batch_held(heap, held, items, 1, addrs)
              IN  /\ r.ok
                  /\ heap' = r.heap
                  /\ held' = r.held
        /\ buf' = NullAddr

\* get_multiple: the JSON text is a String of its own, handed out; the
\* entries found expired are dropped.
BufGetMultiple ==
    \E keys \in BufKeyLists :
        LET out == highper_cache_memory_get_multiple(MEMORY_CACHE, keys, now)
        IN  /\ BufDone([Call("get_multiple") EXCEPT !.keys = keys], out)
            /\ held' = forget(held, out.evicted)
            /\ \E a \in Addr :
                  /\ heap[a] = "free"
                  /\ heap' = [drop(heap, held, out.evicted) EXCEPT ![a] = "out"]
                  /\ buf' = a

\* The caller releases a buffer it was handed and has not released yet, or
\* passes the null sentinel.
BufFreeString ==
    \E ptr \in {NullAddr} \cup {a \in Addr : heap[a] = "out"} :
        /\ heap' = highper_cache_free_string(heap, ptr)
        /\ buf' = ptr
        /\ last' = Call("free_string")
        /\ UNCHANGED <<MEMORY_CACHE, now, overflow_checks, set_log, lock_owner, thr,
                       codec, held, gone>>

BufTick ==
    /\ now < MaxNow
    /\ now' = now + 1
    /\ last' = Idle
    /\ buf' = NullAddr
    /\ UNCHANGED <<MEMORY_CACHE, overflow_checks, set_log, lock_owner, thr, codec,
                   heap, held, gone>>

BufNext ==
    \/ BufVersion \/ BufSet \/ BufGet \/ BufRemove
    \/ BufSetMultiple \/ BufGetMultiple \/ BufFreeString \/ BufTick

\* The handlers together with the heap their Strings and buffers live in.
SpecBuf == BufInit /\ [][BufNext]_vars

\* ================================================================= claims
\* The map behind the mutex (empty until the first call initialises it).
stored == MEMORY_CACHE.map

\* Pointer p carries the text k across the boundary.
DecodesTo(p, k) == (p.null /\ k = "") \/ (~p.null /\ p.utf8 /\ p.text = k)
Undecodable(p) == ~p.null /\ ~p.utf8

\* The call buf to its caller (it did not panic).
Returned(call) == call.op # "idle" /\ call.ret.kind # "panic"

\* The call told its caller that key k is present.
ReportsPresent(call, k) ==
    \/ /\ call.op = "get" /\ DecodesTo(call.key, k)
       /\ call.ret.kind = "ptr" /\ ~call.ret.ptr.null
    \/ /\ call.op = "exists" /\ DecodesTo(call.key, k)
       /\ call.ret.kind = "bool" /\ call.ret.bool
    \/ /\ call.op = "get_multiple"
       /\ call.ret.kind = "json" /\ k \in DOMAIN call.ret.json

\* C1 -- No stale read: no get, exists or get_multiple reports a key present
\* whose stored entry has an expires_at strictly before the clock reading of
\* the call (and a key it reports present is a stored key).
C1_NoStaleRead ==
    [][\A k \in Keys :
          ReportsPresent(last', k) =>
              /\ k \in DOMAIN stored
              /\ ~(stored[k].expires_at.some /\ stored[k].expires_at.v < now)]_vars

\* A get found the entry of its key past its expiry and answered "no value".
C1_Witness ==
    /\ last.op = "get"
    /\ last.ret = RetPtr(NullPtr)
    /\ \E k \in last.stale : DecodesTo(last.key, k) /\ k \in last.evicted

\* C2 -- TTL presence rule: while the set of a key at time c with ttl is in
\* force (no later set, delete or clear of it) and the clock never goes back,
\* a get/exists at time t reports the key present exactly when ttl = 0 or
\* t <= c + ttl.
C2_TtlPresence ==
    [][\A k \in Keys :
          ( /\ last'.op \in {"get", "exists"}
            /\ DecodesTo(last'.key, k)
            /\ Returned(last')
            /\ set_log[k].set )
          => ( ReportsPresent(last', k)
                 <=> ( set_log[k].ttl = 0
                       \/ now <= set_log[k].at + set_log[k].ttl ) )]_vars

\* The same rule for the sets whose sum c + ttl fits the u64 word.
C2_TtlPresenceInRange ==
    [][\A k \in Keys :
          ( /\ last'.op \in {"get", "exists"}
            /\ DecodesTo(last'.key, k)
            /\ Returned(last')
            /\ set_log[k].set
            /\ set_log[k].at + set_log[k].ttl <= U64_MAX )
          => ( ReportsPresent(last', k)
                 <=> ( set_log[k].ttl = 0
                       \/ now <= set_log[k].at + set_log[k].ttl ) )]_vars

\* The entry the specification's data model gives a set at time t: the
\* expiry is the sum t + ttl, or none when ttl = 0.
SpecEntry(v, ttl, t) ==
    [value |-> v,
     expires_at |-> IF ttl = 0 THEN [some |-> FALSE, v |-> 0]
                    ELSE [some |-> TRUE, v |-> t + ttl],
     created_at |-> t]

\* C3 -- Replace semantics: on a store whose lock is not poisoned, a set of
\* a decodable key and value returns true and leaves under the key exactly the new value, created_at = now and the
\* expiry of this ttl, whatever was there before; a get that finds the key
\* returns the stored value; after a delete the key is gone, and exists of a
\* key that is not stored is false.
C3_ReplaceSemantics ==
    [][/\ \A k \in Keys, v \in Values :
            ( /\ last'.op = "set" /\ DecodesTo(last'.key, k) /\ DecodesTo(last'.value, v)
              /\ ~MEMORY_CACHE.poisoned )
            => /\ last'.ret = RetBool(TRUE)
               /\ k \in DOMAIN stored'
               /\ stored'[k] = SpecEntry(v, last'.ttl, now)
       /\ \A k \in Keys :
            ( last'.op = "get" /\ ReportsPresent(last', k) )
            => last'.ret.ptr.text = stored[k].value
       /\ \A k \in Keys :
            ( last'.op = "delete" /\ DecodesTo(last'.key, k) /\ Returned(last') )
            => k \notin DOMAIN stored'
       /\ \A k \in Keys :
            ( last'.op = "exists" /\ DecodesTo(last'.key, k) /\ Returned(last')
              /\ k \notin DOMAIN stored )
            => last'.ret = RetBool(FALSE)]_vars

\* The same with the sets left out whose sum now + ttl exceeds the u64 word.
C3_ReplaceInRange ==
    [][/\ \A k \in Keys, v \in Values :
            ( /\ last'.op = "set" /\ DecodesTo(last'.key, k) /\ DecodesTo(last'.value, v)
              /\ now + last'.ttl <= U64_MAX /\ ~MEMORY_CACHE.poisoned )
            => /\ last'.ret = RetBool(TRUE)
               /\ k \in DOMAIN stored'
               /\ stored'[k] = SpecEntry(v, last'.ttl, now)
       /\ \A k \in Keys :
            ( last'.op = "get" /\ ReportsPresent(last', k) )
            => last'.ret.ptr.text = stored[k].value
       /\ \A k \in Keys :
            ( last'.op = "delete" /\ DecodesTo(last'.key, k) /\ Returned(last') )
            => k \notin DOMAIN stored'
       /\ \A k \in Keys :
            ( last'.op = "exists" /\ DecodesTo(last'.key, k) /\ Returned(last')
              /\ k \notin DOMAIN stored )
            => last'.ret = RetBool(FALSE)]_vars

\* C4 -- delete(k) returns true exactly when an entry is stored under k,
\* expired or not; afterwards nothing is stored under k and every other
\* key's entry is as before.
C4_Delete ==
    [][\A k \in Keys :
          ( last'.op = "delete" /\ DecodesTo(last'.key, k) /\ Returned(last') )
          => /\ last'.ret = RetBool(k \in DOMAIN stored)
             /\ DOMAIN stored' = (DOMAIN stored) \ {k}
             /\ \A j \in DOMAIN stored' : stored'[j] = stored[j]]_vars

\* A delete buf true for an entry that was past its expiry and still
\* stored, and left the other key's entry in place.
C4_Witness ==
    /\ last.op = "delete"
    /\ last.ret = RetBool(TRUE)
    /\ \E k \in last.stale : DecodesTo(last.key, k) /\ k \notin DOMAIN stored
    /\ DOMAIN stored # {}

\* The keys for which exists, asked at clock reading t, answers true.
ExistsSays(mc, t) ==
    {k \in Keys : \E p \in KeyPtrs :
        DecodesTo(p, k) /\ highper_cache_memory_exists(mc, p, t).ret = RetBool(TRUE)}

\* The keys for which get, asked at clock reading t, returns a value.
GetSays(mc, t) ==
    {k \in Keys : \E p \in KeyPtrs :
        DecodesTo(p, k) /\ ~highper_cache_memory_get(mc, p, t).ret.ptr.null}

\* C5 -- cleanup removes exactly the entries expired at call time
\* (now > expires_at), leaves every other entry as it was and returns the
\* number removed; right after it count() equals the number of keys that
\* get and exists report present.
C5_Cleanup ==
    [][( last'.op = "cleanup" /\ Returned(last') )
       => /\ DOMAIN stored' =
                {k \in DOMAIN stored :
                    ~(stored[k].expires_at.some /\ now > stored[k].expires_at.v)}
          /\ \A k \in DOMAIN stored' : stored'[k] = stored[k]
          /\ last'.ret = RetU64(Cardinality((DOMAIN stored) \ (DOMAIN stored')))
          /\ highper_cache_memory_count(MEMORY_CACHE').ret
                = RetU64(Cardinality(ExistsSays(MEMORY_CACHE', now)))
          /\ ExistsSays(MEMORY_CACHE', now) = GetSays(MEMORY_CACHE', now)
          /\ ExistsSays(MEMORY_CACHE', now) = DOMAIN stored']_vars

\* A cleanup removed an expired entry and kept an unexpired one.
C5_Witness ==
    /\ last.op = "cleanup"
    /\ last.ret.kind = "u64" /\ last.ret.num >= 1
    /\ last.evicted # {}
    /\ DOMAIN stored # {}

\* C6 -- count() returns the number of stored entries, expired ones that
\* nothing has removed yet included, and itself removes and changes nothing.
C6_CountRaw ==
    [][( last'.op = "count" /\ Returned(last') )
       => /\ last'.ret = RetU64(Cardinality(DOMAIN stored))
          /\ stored' = stored
          /\ MEMORY_CACHE'.poisoned = MEMORY_CACHE.poisoned]_vars

\* A count that includes an entry whose expiry has passed.
C6_Witness ==
    /\ last.op = "count"
    /\ last.stale # {}
    /\ last.ret = RetU64(Cardinality(DOMAIN stored))
    /\ last.stale \subseteq DOMAIN stored

\* The tuples of a batch whose key and value both decode.
ValidTuples(items) ==
    {i \in 1 .. Len(items) : ~Undecodable(items[i].key) /\ ~Undecodable(items[i].value)}

\* C7 -- Batch isolation: on a store whose lock is not poisoned, set_multiple
\* returns the number of tuples whose key and value decode, wherever the
\* undecodable ones stand; every such tuple's key is afterwards retrievable by
\* get (with the value of the last tuple of that key), and a key that no valid
\* tuple names is left as it was.
C7_BatchIsolation ==
    [][( last'.op = "set_multiple" /\ ~MEMORY_CACHE.poisoned )
       => LET items == last'.items
              valid == ValidTuples(items)
              named == {k \in Keys : \E i \in valid : DecodesTo(items[i].key, k)}
          IN  /\ last'.ret = RetU64(Cardinality(valid))
              /\ \A i \in valid :
                    LET r == highper_cache_memory_get(MEMORY_CACHE', items[i].key, now).ret
                    IN  /\ ~r.ptr.null
                        /\ (\A j \in valid : j > i => items[j].key # items[i].key)
                              => DecodesTo(items[i].value, r.ptr.text)
              /\ \A k \in Keys \ named :
                    /\ k \in DOMAIN stored' <=> k \in DOMAIN stored
                    /\ k \in DOMAIN stored => stored'[k] = stored[k]]_vars

\* The same for the batches in which every sum now + ttl fits the u64 word.
C7_BatchIsolationInRange ==
    [][( /\ last'.op = "set_multiple" /\ ~MEMORY_CACHE.poisoned
         /\ \A i \in ValidTuples(last'.items) : now + last'.items[i].ttl <= U64_MAX )
       => LET items == last'.items
              valid == ValidTuples(items)
              named == {k \in Keys : \E i \in valid : DecodesTo(items[i].key, k)}
          IN  /\ last'.ret = RetU64(Cardinality(valid))
              /\ \A i \in valid :
                    LET r == highper_cache_memory_get(MEMORY_CACHE', items[i].key, now).ret
                    IN  /\ ~r.ptr.null
                        /\ (\A j \in valid : j > i => items[j].key # items[i].key)
                              => DecodesTo(items[i].value, r.ptr.text)
              /\ \A k \in Keys \ named :
                    /\ k \in DOMAIN stored' <=> k \in DOMAIN stored
                    /\ k \in DOMAIN stored => stored'[k] = stored[k]]_vars

\* C8 -- get_multiple returns a mapping whose keys are exactly the requested
\* keys stored and not expired at call time, each with its stored value; keys
\* that are absent, expired or undecodable are left out and the call still
\* returns its mapping; the requested keys found expired are removed and every
\* other entry is as before.
C8_GetMultiple ==
    [][( last'.op = "get_multiple" /\ Returned(last') )
       => LET asked == {k \in Keys : \E i \in 1 .. Len(last'.keys) : DecodesTo(last'.keys[i], k)}
              dead == {k \in asked \cap DOMAIN stored :
                          stored[k].expires_at.some /\ now > stored[k].expires_at.v}
              live == (asked \cap DOMAIN stored) \ dead
          IN  /\ last'.ret.kind = "json"
              /\ DOMAIN last'.ret.json = live
              /\ \A k \in live : last'.ret.json[k] = stored[k].value
              /\ DOMAIN stored' = (DOMAIN stored) \ dead
              /\ \A k \in DOMAIN stored' : stored'[k] = stored[k]]_vars

\* A get_multiple that found a requested key expired and removed it while
\* returning the other key.
C8_Witness ==
    /\ last.op = "get_multiple"
    /\ DOMAIN last.ret.json # {}
    /\ last.evicted # {}

\* C10 -- Decode errors leave the store alone: a set whose key or value is
\* not decodable text, and a get, delete or exists whose key is not, returns
\* its failure value (false, or the null buffer for get) and the mutex and
\* the map behind it are the same before and after.
C10_DecodeErrors ==
    [][/\ ( last'.op = "set" /\ (Undecodable(last'.key) \/ Undecodable(last'.value)) )
            => last'.ret = RetBool(FALSE) /\ MEMORY_CACHE' = MEMORY_CACHE
       /\ ( last'.op = "get" /\ Undecodable(last'.key) )
            => last'.ret = RetPtr(NullPtr) /\ MEMORY_CACHE' = MEMORY_CACHE
       /\ ( last'.op \in {"delete", "exists"} /\ Undecodable(last'.key) )
            => last'.ret = RetBool(FALSE) /\ MEMORY_CACHE' = MEMORY_CACHE]_vars

\* A set with an undecodable value buf false on a store that holds
\* entries.
C10_Witness ==
    /\ last.op = "set"
    /\ Undecodable(last.value) /\ ~Undecodable(last.key)
    /\ last.ret = RetBool(FALSE)
    /\ DOMAIN stored # {}

\* A thread is between taking the guard of MEMORY_CACHE and dropping it.
InCritical(t) == thr[t].pc \in {"init_held", "body", "evict", "unlock"}

\* The handler of thread record th run whole, with nothing in between, on the
\* mutex contents th.snap it found when it took the guard, at the clock
\* readings th.reads it took.
SerialOutcome(th) ==
    LET call == th.call IN
    CASE call.op = "set" ->
            highper_cache_memory_set(th.snap, call.key, call.value, call.ttl, th.reads[1])
      [] call.op = "get" -> highper_cache_memory_get(th.snap, call.key, th.reads[1])
      [] call.op = "delete" -> highper_cache_memory_delete(th.snap, call.key)
      [] call.op = "clear" -> highper_cache_memory_clear(th.snap)
      [] call.op = "exists" -> highper_cache_memory_exists(th.snap, call.key, th.reads[1])
      [] call.op = "cleanup" -> highper_cache_memory_cleanup(th.snap, th.reads[1])
      [] call.op = "count" -> highper_cache_memory_count(th.snap)
      [] call.op = "set_multiple" -> set_multiple_reading(th.snap, call.items, th.reads)
      [] call.op = "get_multiple" -> get_multiple_reading(th.snap, call.keys, th.reads)

\* The first n tuples / keys of a batch applied whole to th.snap.
SerialPrefix(th, n) ==
    IF th.call.op = "set_multiple"
    THEN set_multiple_reading(th.snap, SubSeq(th.call.items, 1, n), th.reads)
    ELSE get_multiple_reading(th.snap, SubSeq(th.call.keys, 1, n), th.reads)

\* C9 -- Atomicity: a thread inside a handler's guarded section holds the
\* lock, so no two threads are inside at once; what a handler returns and
\* leaves in the store when it drops the guard is what the whole handler makes
\* of the store it found when it took the guard; in the middle of a
\* set_multiple / get_multiple the store is what the tuples applied so far
\* make of that store, so no other operation has run (or seen the store) in
\* between; and when get / exists is about to evict, the store is still the
\* one it tested.
C9_Atomic ==
    /\ \A t \in Threads : InCritical(t) => lock_owner = t
    /\ \A t \in Threads :
          thr[t].pc = "unlock" =>
              /\ SerialOutcome(thr[t]).mc = MEMORY_CACHE
              /\ SerialOutcome(thr[t]).ret = thr[t].call.ret
    /\ \A t \in Threads :
          ( thr[t].pc = "body" /\ thr[t].call.op \in {"set_multiple", "get_multiple"} ) =>
              /\ SerialPrefix(thr[t], thr[t].i - 1).mc = MEMORY_CACHE
              /\ thr[t].call.op = "set_multiple" =>
                    SerialPrefix(thr[t], thr[t].i - 1).ret = RetU64(thr[t].success_count)
              /\ thr[t].call.op = "get_multiple" =>
                    SerialPrefix(thr[t], thr[t].i - 1).ret = RetJson(thr[t].results)
    /\ \A t \in Threads :
          thr[t].pc = "evict" =>
              /\ MEMORY_CACHE = thr[t].snap
              /\ SerialOutcome(thr[t]).evicted # {}

\* One thread has applied the first tuple of its set_multiple and not the
\* second, while the other thread's get waits for the lock.
C9_Witness ==
    \E t, u \in Threads :
        /\ t # u
        /\ thr[t].call.op = "set_multiple" /\ thr[t].pc = "body" /\ thr[t].i = 2
        /\ MEMORY_CACHE # thr[t].snap
        /\ thr[u].call.op = "get" /\ thr[u].pc = "lock"

\* One thread's exists has found its key expired and not yet removed it,
\* while the other thread's set of that key waits for the lock.
C9_WitnessEvict ==
    \E t, u \in Threads :
        /\ t # u
        /\ thr[t].call.op = "exists" /\ thr[t].pc = "evict"
        /\ thr[u].call.op = "set" /\ thr[u].pc = "lock"

\* What the handler of `op` returns, on the store mc, for a key that does not
\* decode.
UndecodableKeyReturn(op, mc, t) ==
    CASE op = "get" -> highper_cache_memory_get(mc, BadCStr, t).ret
      [] op = "exists" -> highper_cache_memory_exists(mc, BadCStr, t).ret
      [] op = "delete" -> highper_cache_memory_delete(mc, BadCStr).ret

\* Key k is not found by `op`: nothing is stored under it or, for get and
\* exists, what is stored has expired.
NotFound(op, mc, k, t) ==
    \/ k \notin DOMAIN mc.map
    \/ op \in {"get", "exists"} /\ k \in DOMAIN mc.map /\ is_expired(mc.map[k], t)

\* C11 -- Not-found is distinguishable from failure: what get, exists or
\* delete returns for a key that decodes and is missing or expired differs
\* from what the same operation returns, on the same store, for a key that
\* does not decode.
C11_NotFoundDistinct ==
    [][\A k \in Keys :
          ( /\ last'.op \in {"get", "exists", "delete"}
            /\ DecodesTo(last'.key, k)
            /\ Returned(last')
            /\ NotFound(last'.op, MEMORY_CACHE, k, now) )
          => last'.ret # UndecodableKeyReturn(last'.op, MEMORY_CACHE, now)]_vars

\* The values by which a handler reports a decode failure, an absent key, a
\* false answer or a count of nothing.
OrdinaryFailures == {RetPtr(NullPtr), RetBool(FALSE), RetU64(0)}

\* C12 -- Fatal lock failure is reported: a store operation called while the
\* lock is poisoned returns to its caller, and with a value that is neither
\* the decode failure value nor absent / false / 0.
C12_PoisonReported ==
    [][( MEMORY_CACHE.poisoned /\ last'.op # "idle" )
       => /\ Returned(last')
          /\ last'.ret \notin OrdinaryFailures]_vars

\* After a poisoning, the handlers that take the lock do not return and the
\* store stays as it is (what the code does in place of C12).
C12_PoisonPanics ==
    [][( MEMORY_CACHE.poisoned /\ last'.op # "idle" )
       => /\ MEMORY_CACHE' = MEMORY_CACHE
          /\ IF last'.op \in {"set", "get", "delete", "exists"}
                /\ (Undecodable(last'.key) \/ (last'.op = "set" /\ Undecodable(last'.value)))
             THEN last'.ret \in OrdinaryFailures
             ELSE last'.ret = RetPanic]_vars

\* The number of 3-byte groups of n bytes, the last one possibly short.
Groups(n) == (n + 2) \div 3

\* C13 -- Codec round-trip: for every byte sequence b, encode(b) has 4
\* characters for each group of 3 bytes, ends in "==" when the last group has
\* 1 byte and in one '=' (after a data character) when it has 2, has no '='
\* anywhere else, and decode(encode(b)) succeeds and equals b.
C13_RoundTrip ==
    ( codec.pc = "done" /\ codec.encoded ) =>
        LET b == codec.data
            e == codec.text
            n == Len(b)
            pads == {i \in 1 .. Len(e) : e[i] = PAD}
        IN  /\ e = base64_encode(b)
            /\ Len(e) = 4 * Groups(n)
            /\ pads = CASE n % 3 = 1 -> {Len(e) - 1, Len(e)}
                        [] n % 3 = 2 -> {Len(e)}
                        [] OTHER -> {}
            /\ codec.decoded.ok
            /\ codec.decoded.bytes = b

\* A sequence of 4 bytes holding 0 and 255 went through encode and decode: a
\* full group and a final group of 1 byte padded with two '='.
C13_Witness ==
    /\ codec.pc = "done" /\ codec.encoded
    /\ Len(codec.data) = 4
    /\ 0 \in {codec.data[i] : i \in 1 .. 4}
    /\ 255 \in {codec.data[i] : i \in 1 .. 4}
    /\ Len(codec.text) = 8 /\ codec.text[7] = PAD /\ codec.text[8] = PAD
    /\ codec.decoded = Ok(codec.data)

\* The characters of the 64-symbol alphabet.
Alphabet == {CHARS[i] : i \in 1 .. 64}

\* C14 -- Codec rejects malformation: decode of a text whose length is not a
\* multiple of 4, or that holds a character outside the alphabet and '=',
\* wherever it stands, is an error and carries no bytes.
C14_RejectsMalformed ==
    ( /\ codec.pc = "done"
      /\ \/ Len(codec.text) % 4 # 0
         \/ \E i \in 1 .. Len(codec.text) : codec.text[i] \notin Alphabet \cup {PAD} )
    => /\ ~codec.decoded.ok
       /\ codec.decoded.bytes = <<>>

\* A text of two groups whose first group decodes and whose second group
\* holds a character outside the alphabet was rejected.
C14_Witness ==
    /\ codec.pc = "done"
    /\ Len(codec.text) = 8
    /\ base64_decode(SubSeq(codec.text, 1, 4)).ok
    /\ \E i \in 5 .. 8 : codec.text[i] \notin Alphabet \cup {PAD}
    /\ ~codec.decoded.ok

\* The positions of a text where '=' may stand: the last position, and the
\* one before it when the last holds '=' too; both in the final group.
PadAllowed(text) ==
    LET n == Len(text) IN
    IF n = 0 \/ n % 4 # 0 THEN {}
    ELSE IF text[n] = PAD THEN {n - 1, n} ELSE {}

\* C15 -- Pad placement in decode: a text with '=' anywhere but the last, or
\* the last two, positions of its final group is not decoded successfully;
\* where '=' stands there, the decode leaves out one or two bytes.
C15_PadPlacement ==
    ( codec.pc = "done" ) =>
        LET text == codec.text
            pads == {i \in 1 .. Len(text) : text[i] = PAD}
        IN  /\ ~(pads \subseteq PadAllowed(text)) => ~codec.decoded.ok
            /\ ( codec.decoded.ok /\ pads # {} )
                  => Len(codec.decoded.bytes) = 3 * (Len(text) \div 4) - Cardinality(pads)

\* The pad rule the code does keep: in a text that decodes, each group gives
\* three bytes less one for '=' in its third and one for '=' in its fourth
\* position, wherever the group stands and whatever its first two characters.
C15_PadOmitsBytes ==
    ( codec.pc = "done" /\ codec.decoded.ok ) =>
        LET text == codec.text
            cut == {i \in 1 .. Len(text) : text[i] = PAD /\ i % 4 \in {0, 3}}
        IN  Len(codec.decoded.bytes) = 3 * (Len(text) \div 4) - Cardinality(cut)

\* The blocks handed out to the caller and not yet released.
Outstanding(h) == {a \in Addr : h[a] = "out"}

\* The call handed a buffer that is not null to its caller.
ReturnsBuffer(call) ==
    \/ call.op \in {"version", "get"} /\ call.ret.kind = "ptr" /\ ~call.ret.ptr.null
    \/ call.op = "get_multiple" /\ call.ret.kind = "json"

\* C16 -- Buffer ownership: a buffer that version, get or get_multiple
\* returns is a block that was free before the call, so it differs from every
\* buffer handed out and not yet released (and from the blocks of the map and
\* of the caller); no entry of the map points to a block handed out; no call
\* but free_string frees a block handed out; free_string(p) frees p and
\* nothing else, and nothing at all for the null sentinel; and no call frees
\* the caller's own block.
C16_BufferOwnership ==
    [][/\ ReturnsBuffer(last') =>
             /\ buf' \in Addr
             /\ heap[buf'] = "free"
             /\ heap'[buf'] = "out"
             /\ Outstanding(heap') = Outstanding(heap) \cup {buf'}
       /\ \A k \in DOMAIN held' : heap'[held'[k]] = "entry"
       /\ last'.op # "free_string" => Outstanding(heap) \subseteq Outstanding(heap')
       /\ last'.op = "free_string" =>
             /\ Outstanding(heap') = Outstanding(heap) \ {buf'}
             /\ \A a \in Addr \ {buf'} : heap'[a] = heap[a]
             /\ buf' # NullAddr => heap'[buf'] = "free"
             /\ held' = held
       /\ \A a \in Addr : heap[a] = "input" => heap'[a] = "input"]_vars

\* A get returned a fresh buffer while an earlier buffer is still with the
\* caller and the entry it copied is still in the map.
C16_Witness ==
    /\ last.op = "get"
    /\ buf \in Outstanding(heap)
    /\ Outstanding(heap) \ {buf} # {}
    /\ \E k \in DOMAIN held : heap[held[k]] = "entry" /\ held[k] # buf

\* The caller released one of two buffers it held; the other is still live.
C16_WitnessRelease ==
    /\ last.op = "free_string"
    /\ buf # NullAddr
    /\ heap[buf] = "free"
    /\ Outstanding(heap) # {}

\* The valid tuples of a batch that are the last valid tuple of their key.
LastOfKey(items) ==
    {i \in ValidTuples(items) :
        \A j \in ValidTuples(items) :
            j > i => c_str_to_string(items[j].key).s # c_str_to_string(items[i].key).s}

\* C17 -- Last-applied-wins inside a batch: after a set_multiple that
\* returned, the entry under each key the batch names is the one a set of the
\* last tuple of that key alone would have stored (its value, its expiry or
\* lack of one, created at the call), whatever the earlier tuples of the key
\* held, and the count returned is the number of all applied tuples, the
\* overwritten ones included.
C17_LastWins ==
    [][( last'.op = "set_multiple" /\ Returned(last') )
       => LET items == last'.items IN
          /\ last'.ret = RetU64(Cardinality(ValidTuples(items)))
          /\ \A i \in LastOfKey(items) :
                LET k == c_str_to_string(items[i].key).s
                    alone == highper_cache_memory_set(
                                 MEMORY_CACHE, items[i].key, items[i].value,
                                 items[i].ttl, now)
                IN  /\ k \in DOMAIN stored'
                    /\ alone.ret = RetBool(TRUE)
                    /\ stored'[k] = alone.mc.map[k]
                    /\ DecodesTo(items[i].value, stored'[k].value)
                    /\ stored'[k].created_at = now
                    /\ stored'[k].expires_at.some <=> items[i].ttl > 0]_vars

\* A batch of two tuples of one key, differing in value and ttl, returned 2
\* and left the second tuple's value and expiry.
C17_Witness ==
    /\ last.op = "set_multiple"
    /\ last.ret = RetU64(2)
    /\ Len(last.items) = 2
    /\ last.items[1].key = last.items[2].key
    /\ last.items[1].value # last.items[2].value
    /\ last.items[1].ttl # last.items[2].ttl
    /\ \E k \in DOMAIN stored :
          /\ DecodesTo(last.items[2].key, k)
          /\ DecodesTo(last.items[2].value, stored[k].value)
          /\ ~DecodesTo(last.items[1].value, stored[k].value)
          /\ stored[k].expires_at = Some(now + last.items[2].ttl)

\* The entry under k is the exact sum for a ttl > 0 given at clock reading t,
\* and the key is reported present by get and exists asked at once.
ExactExpiry(mc, kp, k, ttl, t) ==
    /\ k \in DOMAIN mc.map
    /\ mc.map[k].created_at = t
    /\ mc.map[k].expires_at = [some |-> TRUE, v |-> t + ttl]
    /\ mc.map[k].expires_at.v >= mc.map[k].created_at
    /\ highper_cache_memory_exists(mc, kp, t).ret = RetBool(TRUE)
    /\ ~highper_cache_memory_get(mc, kp, t).ret.ptr.null

\* C18 -- Expiry arithmetic: for every ttl from 1 to the largest u64 and
\* every clock reading, a set (or the last tuple of a key in a set_multiple)
\* on a store whose lock is not poisoned stores expires_at = created_at + ttl
\* as the exact sum, not reduced modulo the word, so expires_at >= created_at
\* and get / exists report the key present immediately afterwards.
C18_ExpiryExact ==
    [][/\ \A k \in Keys :
            ( /\ last'.op = "set" /\ DecodesTo(last'.key, k) /\ ~Undecodable(last'.value)
              /\ last'.ttl > 0 /\ ~MEMORY_CACHE.poisoned )
            => ExactExpiry(MEMORY_CACHE', last'.key, k, last'.ttl, now)
       /\ ( last'.op = "set_multiple" /\ ~MEMORY_CACHE.poisoned )
            => \A i \in LastOfKey(last'.items) :
                  last'.items[i].ttl > 0
                  => ExactExpiry(MEMORY_CACHE', last'.items[i].key,
                                 c_str_to_string(last'.items[i].key).s,
                                 last'.items[i].ttl, now)]_vars

\* The same for the ttls whose sum with the clock reading fits the word.
C18_ExpiryInRange ==
    [][/\ \A k \in Keys :
            ( /\ last'.op = "set" /\ DecodesTo(last'.key, k) /\ ~Undecodable(last'.value)
              /\ last'.ttl > 0 /\ ~MEMORY_CACHE.poisoned
              /\ now + last'.ttl <= U64_MAX )
            => ExactExpiry(MEMORY_CACHE', last'.key, k, last'.ttl, now)
       /\ ( /\ last'.op = "set_multiple" /\ ~MEMORY_CACHE.poisoned
            /\ \A i \in ValidTuples(last'.items) : now + last'.items[i].ttl <= U64_MAX )
            => \A i \in LastOfKey(last'.items) :
                  last'.items[i].ttl > 0
                  => ExactExpiry(MEMORY_CACHE', last'.items[i].key,
                                 c_str_to_string(last'.items[i].key).s,
                                 last'.items[i].ttl, now)]_vars

\* A thread is inside a handler it has entered and not returned from.
Started(t) == thr[t].pc # "idle"

\* C19 -- Progress: under fair scheduling every operation a thread has
\* started eventually returns; a thread that goes for the lock does not hold
\* it already; a thread outside the guarded sections holds no lock (so each
\* return path has released it); and the lock is never left held by a thread
\* that cannot go on.
C19_Progress ==
    /\ [](\A t \in Threads : lock_owner = t => InCritical(t))
    /\ [](\A t \in Threads : thr[t].pc \in {"init", "lock"} => lock_owner # t)
    /\ \A t \in Threads : Started(t) ~> ~Started(t)

\* What holds in every build: the lock is held only inside the guarded
\* sections, is not asked for by its holder, and is released by a panic too.
C19_LockDiscipline ==
    /\ \A t \in Threads : lock_owner = t => InCritical(t)
    /\ \A t \in Threads : thr[t].pc \in {"init", "lock"} => lock_owner # t
    /\ \A t \in Threads : thr[t].pc = "panicked" => lock_owner # t
    /\ lock_owner # NoThread => ~MEMORY_CACHE.poisoned

\* In a build that wraps on overflow no handler panics, and under fair
\* scheduling every operation started returns.
C19_ProgressWrapping ==
    \A t \in Threads : (~overflow_checks /\ Started(t)) ~> ~Started(t)

\* C20 -- Absence is stable: a key that a get, exists or get_multiple has
\* reported absent, and that no set or set_multiple has stored since, is not
\* reported present by any later get, exists or get_multiple, wherever the
\* wall clock has moved in between; nor is an entry stored under it.
C20_AbsenceStable ==
    [][\A k \in gone.keys :
          /\ ~ReportsPresent(last', k)
          /\ k \notin DOMAIN stored]_vars

\* A key set with a ttl was found expired and reported absent; the clock was
\* then set back into the lifetime of that set, and a later get of the key
\* still answered "no value".
C20_Witness ==
    /\ last.op = "get"
    /\ last.ret = RetPtr(NullPtr)
    /\ last.evicted = {}
    /\ \E k \in gone.keys :
          /\ DecodesTo(last.key, k)
          /\ set_log[k].set /\ set_log[k].ttl > 0
          /\ set_log[k].at + set_log[k].ttl <= U64_MAX
          /\ now <= set_log[k].at + set_log[k].ttl

====
